---- MODULE Spec2Model ----
(***************************************************************************)
(* Model of the ink! contract CrudContract (src/lib.rs): a vector of       *)
(* messages, one active message per sender, soft deletion, and a creator   *)
(* who alone may list every message.                                       *)
(*                                                                         *)
(* Names of the specification against names of the code:                   *)
(*   create / readOne / readAll / update / delete / listActiveOwners       *)
(*     = create_message / read_message_from / read_all_messages /          *)
(*       update_message / delete_message / get_senders                     *)
(*   AlreadyExists = MessageAlreadyCreatedBySender, TooShort =             *)
(*   MessageTooShort, Identical = MessageIsIdentical, NotFound =           *)
(*   AnyMessageFound, Unauthorized = Unauthorized                          *)
(*   records = messages, administrator = creator, owner = sender,          *)
(*   content = message                                                     *)
(***************************************************************************)
EXTENDS Integers, Sequences, FiniteSets, TLC

VARIABLES messages, creator, now, call, result

vars == <<messages, creator, now, call, result>>

(***************************************************************************)
(* Bounds of the model.                                                    *)
(***************************************************************************)
MaxRecords == 2
MaxTime == 1

\* AccountId values; integers, so that they are ordered as AccountId is.
Accounts == {1, 2}

\* Timestamp values the environment hands out.
Timestamps == 0..MaxTime

\* The text the constructor stores (50 bytes).
init_message == "I created my ULTIMATE CRUD contract for Ronin Club"

\* Texts the callers send: lengths 9, 10 and 10 bytes.
Contents == {"012345678", "0123456789", "abcdefghij"}

\* The minimal length is_message_too_short compares with.
MinLength == 10

(***************************************************************************)
(* Option<T> is the set of at most one value.                              *)
(***************************************************************************)
None == {}
Some(x) == {x}
unwrap(o) == CHOOSE x \in o : TRUE

(***************************************************************************)
(* Result<T, CrudError>.                                                   *)
(***************************************************************************)
Ok(v) == [ok |-> TRUE, value |-> v]
Err(e) == [ok |-> FALSE, error |-> e]
\* The unit value ().
Unit == <<>>
\* A panic (unwrap of None) traps the contract call: no result, state reverted.
Trap == [ok |-> FALSE, error |-> "Panic"]

(***************************************************************************)
(* struct Message                                                          *)
(***************************************************************************)
\* Variant: updated_at left at the default 0 instead of created_at.
Message_new_ZeroUpdated(sender, message, created_at) ==
    [sender |-> sender,
     message |-> message,
     created_at |-> created_at,
     updated_at |-> 0,
     deleted_at |-> None]

Message_new(sender, message, created_at) ==
    [sender |-> sender,
     message |-> message,
     created_at |-> created_at,
     updated_at |-> created_at,
     deleted_at |-> None]

\* Variant: the deletion also counts as an update.
Message_delete_TouchUpdated(m, deleted_at) ==
    [m EXCEPT !.deleted_at = Some(deleted_at), !.updated_at = deleted_at]

\* Variant: the wrong timestamp, the message's created_at, is stored.
Message_delete_AtCreation(m, deleted_at) ==
    [m EXCEPT !.deleted_at = Some(m.created_at)]

Message_delete(m, deleted_at) ==
    [m EXCEPT !.deleted_at = Some(deleted_at)]

\* Variant: the update also resets created_at.
Message_update_TouchCreated(m, message, updated_at) ==
    [m EXCEPT !.message = message, !.updated_at = updated_at,
              !.created_at = updated_at]

Message_update(m, message, updated_at) ==
    [m EXCEPT !.message = message, !.updated_at = updated_at]

(***************************************************************************)
(* Private functions of CrudContract                                       *)
(***************************************************************************)
\* Iterator::find: the first of the positions S, those whose element
\* satisfies the predicate; 0 for none.
find(S) ==
    IF S = {} THEN 0 ELSE CHOOSE i \in S : \A j \in S : i <= j

\* Variant: the deleted_at filter is missing.
get_caller_mut_message_AnyState(msgs, caller) ==
    find({i \in DOMAIN msgs : msgs[i].sender = caller})

\* Variant: the sender filter is missing.
get_caller_mut_message_First(msgs, caller) ==
    find({i \in DOMAIN msgs : msgs[i].deleted_at = None})

\* The position of the message the mutable reference points to, 0 for None.
get_caller_mut_message(msgs, caller) ==
    find({i \in DOMAIN msgs :
            msgs[i].sender = caller /\ msgs[i].deleted_at = None})

\* Variant: the deleted_at filter is missing.
get_caller_message_AnyState(msgs, caller) ==
    LET i == find({j \in DOMAIN msgs : msgs[j].sender = caller})
    IN  IF i = 0 THEN None ELSE Some(msgs[i])

get_caller_message(msgs, caller) ==
    LET i == find({j \in DOMAIN msgs :
                      msgs[j].sender = caller /\ msgs[j].deleted_at = None})
    IN  IF i = 0 THEN None ELSE Some(msgs[i])

\* Variant: the comparison is inverted.
is_authorized_Inverted(caller) ==
    IF caller = creator THEN Err("Unauthorized") ELSE Ok(Unit)

\* Variant: the creator must also own an active message.
is_authorized_NeedsActive(caller) ==
    IF caller # creator \/ get_caller_message(messages, caller) = None
    THEN Err("Unauthorized")
    ELSE Ok(Unit)

is_authorized(caller) ==
    IF caller # creator THEN Err("Unauthorized") ELSE Ok(Unit)

\* Variant: off by one, a message of exactly the minimal length is refused.
is_message_too_short_OffByOne(message) ==
    IF Len(message) <= MinLength THEN Err("MessageTooShort") ELSE Ok(Unit)

\* Variant: off by one the other way, a message one short is accepted.
is_message_too_short_NineOk(message) ==
    IF Len(message) < MinLength - 1 THEN Err("MessageTooShort") ELSE Ok(Unit)

is_message_too_short(message) ==
    IF Len(message) < MinLength THEN Err("MessageTooShort") ELSE Ok(Unit)

\* Variant: a deleted message of the caller counts too.
can_edit_message_AnyRecord(msgs, caller) ==
    IF \E i \in DOMAIN msgs : msgs[i].sender = caller
    THEN Ok(Unit)
    ELSE Err("AnyMessageFound")

can_edit_message(msgs, caller) ==
    IF get_caller_message(msgs, caller) # None
    THEN Ok(Unit)
    ELSE Err("AnyMessageFound")

\* Variant: the test is inverted.
can_create_message_Inverted(msgs, caller) ==
    IF get_caller_message(msgs, caller) # None
    THEN Ok(Unit)
    ELSE Err("MessageAlreadyCreatedBySender")

\* Variant: a deleted message of the caller still blocks a new one.
can_create_message_AnyRecord(msgs, caller) ==
    IF \A i \in DOMAIN msgs : msgs[i].sender # caller
    THEN Ok(Unit)
    ELSE Err("MessageAlreadyCreatedBySender")

can_create_message(msgs, caller) ==
    IF get_caller_message(msgs, caller) = None
    THEN Ok(Unit)
    ELSE Err("MessageAlreadyCreatedBySender")

\* Variant: the comparison is a.created_at.cmp(&b.created_at), ascending.
RECURSIVE insert_asc(_, _)
insert_asc(sorted, m) ==
    IF sorted = <<>> THEN <<m>>
    ELSE IF Head(sorted).created_at <= m.created_at
         THEN <<Head(sorted)>> \o insert_asc(Tail(sorted), m)
         ELSE <<m>> \o sorted

\* slice::sort_by(|a, b| b.created_at.cmp(&a.created_at)): a stable sort, so
\* an element goes behind every element whose created_at is not smaller.
RECURSIVE insert_desc(_, _)
insert_desc(sorted, m) ==
    IF sorted = <<>> THEN <<m>>
    ELSE IF Head(sorted).created_at >= m.created_at
         THEN <<Head(sorted)>> \o insert_desc(Tail(sorted), m)
         ELSE <<m>> \o sorted

RECURSIVE sort_by_created_at_desc(_)
sort_by_created_at_desc(msgs) ==
    IF msgs = <<>> THEN <<>>
    ELSE insert_desc(sort_by_created_at_desc(SubSeq(msgs, 1, Len(msgs) - 1)),
                     msgs[Len(msgs)])

get_all_messages_from_storage(msgs) ==
    sort_by_created_at_desc(msgs)

\* senders.sort(); senders.dedup(): the ascending sequence of a set.
RECURSIVE sorted_seq(_)
sorted_seq(S) ==
    IF S = {} THEN <<>>
    ELSE LET lo == CHOOSE x \in S : \A y \in S : x <= y
         IN  <<lo>> \o sorted_seq(S \ {lo})

\* Variant: the senders of deleted messages are pushed too.
senders_of_All(msgs) ==
    sorted_seq({msgs[i].sender : i \in DOMAIN msgs})

senders_of(msgs) ==
    sorted_seq({msgs[i].sender : i \in {j \in DOMAIN msgs : msgs[j].deleted_at = None}})

(***************************************************************************)
(* Constructor                                                             *)
(***************************************************************************)
\* Variant: the creator is a default account, not the caller.
new_DefaultCreator(caller, block_timestamp) ==
    /\ creator = 1
    /\ messages = <<Message_new(caller, init_message, block_timestamp)>>
    /\ now = block_timestamp
    /\ call = [op |-> "new", caller |-> caller]
    /\ result = Ok(Unit)

\* Variant: no first message is pushed.
new_EmptyStore(caller, block_timestamp) ==
    /\ creator = caller
    /\ messages = <<>>
    /\ now = block_timestamp
    /\ call = [op |-> "new", caller |-> caller]
    /\ result = Ok(Unit)

new(caller, block_timestamp) ==
    /\ creator = caller
    /\ messages = <<Message_new(caller, init_message, block_timestamp)>>
    /\ now = block_timestamp
    /\ call = [op |-> "new", caller |-> caller]
    /\ result = Ok(Unit)

Init == \E caller \in Accounts, t \in Timestamps : new(caller, t)

(***************************************************************************)
(* Messages of the contract.  The environment supplies the caller and, to  *)
(* the messages that ask for it, the block timestamp (the time of the      *)
(* call).  `now` is the last                                               *)
(* block timestamp the contract has read; the block timestamp never        *)
(* decreases, so each value read is at least `now`.  A message reads the   *)
(* block timestamp only where it writes a Message: read_message_from,      *)
(* read_all_messages, get_senders and every failing call do not read it.   *)
(***************************************************************************)
\* env().block_timestamp(): any timestamp not before the last one read.
BlockTimestamps == {t \in Timestamps : t >= now}

\* Variant: the message is pushed before its length is checked.
create_message_PushFirst(caller, message) ==
    /\ call' = [op |-> "create_message", caller |-> caller, message |-> message]
    /\ UNCHANGED creator
    /\ IF ~can_create_message(messages, caller).ok
       THEN /\ result' = can_create_message(messages, caller)
            /\ UNCHANGED <<messages, now>>
       ELSE /\ Len(messages) < MaxRecords
            /\ \E block_timestamp \in BlockTimestamps :
                /\ messages' =
                     Append(messages, Message_new(caller, message, block_timestamp))
                /\ now' = block_timestamp
            /\ result' = is_message_too_short(message)

create_message(caller, message) ==
    /\ call' = [op |-> "create_message", caller |-> caller, message |-> message]
    /\ UNCHANGED creator
    /\ IF ~can_create_message(messages, caller).ok
       THEN /\ result' = can_create_message(messages, caller)
            /\ UNCHANGED <<messages, now>>
       ELSE IF ~is_message_too_short(message).ok
       THEN /\ result' = is_message_too_short(message)
            /\ UNCHANGED <<messages, now>>
       ELSE /\ Len(messages) < MaxRecords
            /\ \E block_timestamp \in BlockTimestamps :
                /\ messages' =
                     Append(messages, Message_new(caller, message, block_timestamp))
                /\ now' = block_timestamp
            /\ result' = Ok(Unit)

\* What read_message_from returns on the storage msgs.
read_message_from_ret(msgs, caller) ==
    LET caller_mesage == get_caller_message(msgs, caller)
    IN  IF caller_mesage # None
        THEN Ok(unwrap(caller_mesage).message)
        ELSE Err("AnyMessageFound")

read_message_from(env_caller, caller) ==
    /\ call' = [op |-> "read_message_from", caller |-> env_caller, target |-> caller]
    /\ UNCHANGED <<creator, messages, now>>
    /\ result' = read_message_from_ret(messages, caller)

read_all_messages(caller) ==
    /\ call' = [op |-> "read_all_messages", caller |-> caller]
    /\ UNCHANGED <<creator, messages, now>>
    /\ IF ~is_authorized(caller).ok
       THEN result' = is_authorized(caller)
       ELSE LET all_messages == get_all_messages_from_storage(messages)
            IN  IF all_messages = <<>>
                THEN result' = Err("AnyMessageFound")
                ELSE result' = Ok(all_messages)

update_message(caller, message) ==
    /\ call' = [op |-> "update_message", caller |-> caller, message |-> message]
    /\ UNCHANGED creator
    /\ IF ~can_edit_message(messages, caller).ok
       THEN /\ result' = can_edit_message(messages, caller)
            /\ UNCHANGED <<messages, now>>
       ELSE IF ~is_message_too_short(message).ok
       THEN /\ result' = is_message_too_short(message)
            /\ UNCHANGED <<messages, now>>
       ELSE IF get_caller_message(messages, caller) = None
       THEN /\ result' = Trap
            /\ UNCHANGED <<messages, now>>
       ELSE IF unwrap(get_caller_message(messages, caller)).message = message
       THEN /\ result' = Err("MessageIsIdentical")
            /\ UNCHANGED <<messages, now>>
       ELSE LET i == get_caller_mut_message(messages, caller)
            IN  IF i = 0
                THEN /\ result' = Trap
                     /\ UNCHANGED <<messages, now>>
                ELSE /\ \E block_timestamp \in BlockTimestamps :
                        /\ messages' = [messages EXCEPT ![i] =
                                          Message_update(@, message, block_timestamp)]
                        /\ now' = block_timestamp
                     /\ result' = Ok(Unit)

\* Variant: the message is removed from the vector.
delete_message_Remove(caller) ==
    /\ call' = [op |-> "delete_message", caller |-> caller]
    /\ UNCHANGED creator
    /\ IF ~can_edit_message(messages, caller).ok
       THEN /\ result' = can_edit_message(messages, caller)
            /\ UNCHANGED <<messages, now>>
       ELSE LET i == get_caller_mut_message(messages, caller)
            IN  IF i = 0
                THEN /\ result' = Trap
                     /\ UNCHANGED <<messages, now>>
                ELSE /\ messages' = SubSeq(messages, 1, i - 1) \o
                                    SubSeq(messages, i + 1, Len(messages))
                     /\ UNCHANGED now
                     /\ result' = Ok(Unit)

delete_message(caller) ==
    /\ call' = [op |-> "delete_message", caller |-> caller]
    /\ UNCHANGED creator
    /\ IF ~can_edit_message(messages, caller).ok
       THEN /\ result' = can_edit_message(messages, caller)
            /\ UNCHANGED <<messages, now>>
       ELSE LET i == get_caller_mut_message(messages, caller)
            IN  IF i = 0
                THEN /\ result' = Trap
                     /\ UNCHANGED <<messages, now>>
                ELSE /\ \E block_timestamp \in BlockTimestamps :
                        /\ messages' = [messages EXCEPT ![i] =
                                          Message_delete(@, block_timestamp)]
                        /\ now' = block_timestamp
                     /\ result' = Ok(Unit)

get_senders ==
    /\ call' = [op |-> "get_senders"]
    /\ UNCHANGED <<creator, messages, now>>
    /\ result' = Ok(senders_of(messages))

CreateMessage ==
    \E caller \in Accounts, message \in Contents : create_message(caller, message)

ReadMessageFrom ==
    \E env_caller \in Accounts, caller \in Accounts :
        read_message_from(env_caller, caller)

ReadAllMessages ==
    \E caller \in Accounts : read_all_messages(caller)

UpdateMessage ==
    \E caller \in Accounts, message \in Contents : update_message(caller, message)

DeleteMessage ==
    \E caller \in Accounts : delete_message(caller)

GetSenders == get_senders

Next ==
    \/ CreateMessage
    \/ ReadMessageFrom
    \/ ReadAllMessages
    \/ UpdateMessage
    \/ DeleteMessage
    \/ GetSenders

Spec == Init /\ [][Next]_vars

TypeOK ==
    /\ creator \in Accounts
    /\ now \in Timestamps
    /\ Len(messages) <= MaxRecords
    /\ \A i \in DOMAIN messages :
        /\ messages[i].sender \in Accounts
        /\ messages[i].created_at \in Timestamps
        /\ messages[i].updated_at \in Timestamps
        /\ messages[i].deleted_at \subseteq Timestamps

(***************************************************************************)
(* Properties.  They speak of the storage directly: the positions of the   *)
(* messages of a sender that are not deleted, and of those that are.       *)
(***************************************************************************)
ActiveOf(msgs, id) ==
    {i \in DOMAIN msgs : msgs[i].sender = id /\ msgs[i].deleted_at = {}}

TombstonesOf(msgs, id) ==
    {i \in DOMAIN msgs : msgs[i].sender = id /\ msgs[i].deleted_at # {}}

\* C1: in every reachable state each identity owns at most one message whose
\* deleted_at is absent.
C1_AtMostOneActive ==
    \A a \in Accounts : Cardinality(ActiveOf(messages, a)) <= 1

\* An identity created a message again after deleting one: it owns a deleted
\* message and an active one.
C1_Witness ==
    /\ call.op = "create_message"
    /\ result.ok
    /\ TombstonesOf(messages, call.caller) # {}
    /\ Cardinality(ActiveOf(messages, call.caller)) = 1

\* C2: a call that returns an error leaves the whole storage (the messages and
\* the creator) as it was before the call.
C2_ErrorLeavesStorage ==
    [][~result'.ok => messages' = messages /\ creator' = creator]_vars

\* An update was refused as identical while the store held two messages.
C2_Witness ==
    /\ call.op = "update_message"
    /\ result = Err("MessageIsIdentical")
    /\ Len(messages) = 2

\* C3: create_message fails with MessageAlreadyCreatedBySender exactly when the
\* caller owns an active message, whatever the text; otherwise with
\* MessageTooShort exactly when the text is shorter than 10; otherwise it
\* succeeds.
C3_CreateOutcome ==
    [][call'.op = "create_message" =>
        IF ActiveOf(messages, call'.caller) # {}
        THEN result' = Err("MessageAlreadyCreatedBySender")
        ELSE IF Len(call'.message) < 10
        THEN result' = Err("MessageTooShort")
        ELSE result' = Ok(Unit)]_vars

\* A create with a text of length 9 by a caller who owns an active message was
\* refused as already created.
C3_Witness ==
    /\ call.op = "create_message"
    /\ Len(call.message) = 9
    /\ result = Err("MessageAlreadyCreatedBySender")

\* C4: a successful create_message appends exactly one message, with sender the
\* caller, the given text, created_at = updated_at = the time of the call and
\* deleted_at absent, and leaves every earlier message in place and unchanged.
C4_CreateAppends ==
    [][call'.op = "create_message" /\ result'.ok =>
        messages' = messages \o
            <<[sender |-> call'.caller,
               message |-> call'.message,
               created_at |-> now',
               updated_at |-> now',
               deleted_at |-> {}]>>]_vars

\* A create succeeded at a time after the construction.
C4_Witness ==
    /\ call.op = "create_message"
    /\ result.ok
    /\ Len(messages) = 2
    /\ messages[2].created_at > messages[1].created_at

\* C5: update_message fails with AnyMessageFound when the caller owns no active
\* message (whatever the text), else with MessageTooShort when the text is
\* shorter than 10, else with MessageIsIdentical when the text equals the
\* caller's active text, and succeeds in every other case.
C5_UpdateOutcome ==
    [][call'.op = "update_message" =>
        IF ActiveOf(messages, call'.caller) = {}
        THEN result' = Err("AnyMessageFound")
        ELSE IF Len(call'.message) < 10
        THEN result' = Err("MessageTooShort")
        ELSE IF \E i \in ActiveOf(messages, call'.caller) :
                    messages[i].message = call'.message
        THEN result' = Err("MessageIsIdentical")
        ELSE result' = Ok(Unit)]_vars

\* An update with a text of length 9 by a caller whose only message is deleted
\* was refused as not found.
C5_Witness ==
    /\ call.op = "update_message"
    /\ Len(call.message) = 9
    /\ TombstonesOf(messages, call.caller) # {}
    /\ result = Err("AnyMessageFound")

\* C6: a successful update_message changes only the text and updated_at of the
\* caller's active message, to the new text and the time of the call; its
\* sender, created_at and deleted_at, the length and order of the messages and
\* every other message stay as they were.
C6_UpdateFrame ==
    [][call'.op = "update_message" /\ result'.ok =>
        \E i \in ActiveOf(messages, call'.caller) :
            messages' = [messages EXCEPT ![i] =
                [sender |-> messages[i].sender,
                 message |-> call'.message,
                 created_at |-> messages[i].created_at,
                 updated_at |-> now',
                 deleted_at |-> messages[i].deleted_at]]]_vars

\* An update succeeded at a time after the creation of the message, in a
\* store of two messages.
C6_Witness ==
    /\ call.op = "update_message"
    /\ result.ok
    /\ Len(messages) = 2
    /\ \E i \in ActiveOf(messages, call.caller) :
        messages[i].updated_at > messages[i].created_at

\* C7: delete_message fails with AnyMessageFound when the caller owns no active
\* message; otherwise it sets deleted_at to the time of the call on the caller's
\* active message and changes nothing else: same position, sender, text,
\* created_at and updated_at, same number of messages.
C7_DeleteOutcome ==
    [][call'.op = "delete_message" =>
        IF ActiveOf(messages, call'.caller) = {}
        THEN result' = Err("AnyMessageFound") /\ messages' = messages
        ELSE /\ result' = Ok(Unit)
             /\ \E i \in ActiveOf(messages, call'.caller) :
                 messages' = [messages EXCEPT ![i] =
                     [sender |-> messages[i].sender,
                      message |-> messages[i].message,
                      created_at |-> messages[i].created_at,
                      updated_at |-> messages[i].updated_at,
                      deleted_at |-> {now'}]]]_vars

\* A delete succeeded on the first of two messages, after that message had
\* been updated.
C7_Witness ==
    /\ call.op = "delete_message"
    /\ result.ok
    /\ Len(messages) = 2
    /\ messages[1].sender = call.caller
    /\ messages[1].deleted_at = {now}
    /\ messages[1].message # init_message

\* C8: once deleted_at of a message is present, no call changes that message:
\* its deleted_at, text, updated_at, created_at and sender stay for ever.
C8_TombstoneImmutable ==
    [][\A i \in DOMAIN messages :
        messages[i].deleted_at # {} =>
            i \in DOMAIN messages' /\ messages'[i] = messages[i]]_vars

\* The owner of a deleted message updated a later message of theirs.
C8_Witness ==
    /\ call.op = "update_message"
    /\ result.ok
    /\ TombstonesOf(messages, call.caller) # {}

\* C9: after an identity's active message is deleted, a create_message by that
\* identity with a text of length at least 10 succeeds; the identity's earlier
\* messages stay as deleted ones, the new message is its only active one, and
\* read_message_from for that identity returns the new text.
C9_RecreateAfterDelete ==
    [][ /\ call'.op = "create_message"
        /\ ActiveOf(messages, call'.caller) = {}
        /\ TombstonesOf(messages, call'.caller) # {}
        /\ Len(call'.message) >= 10
        => /\ result' = Ok(Unit)
           /\ Len(messages') = Len(messages) + 1
           /\ TombstonesOf(messages', call'.caller) = TombstonesOf(messages, call'.caller)
           /\ ActiveOf(messages', call'.caller) = {Len(messages')}
           /\ read_message_from_ret(messages', call'.caller) = Ok(call'.message)
      ]_vars

\* The creator deleted the first message and created another, whose text a
\* read now returns.
C9_Witness ==
    /\ call.op = "read_message_from"
    /\ Len(messages) = 2
    /\ TombstonesOf(messages, call.target) = {1}
    /\ ActiveOf(messages, call.target) = {2}
    /\ result = Ok(messages[2].message)

\* C10: read_all_messages fails with Unauthorized for every caller other than
\* the creator, and never fails with Unauthorized for the creator.
C10_ReadAllAuthorization ==
    call.op = "read_all_messages" =>
        (result = Err("Unauthorized") <=> call.caller # creator)

\* A caller other than the creator, owning an active message, was refused.
C10_Witness ==
    /\ call.op = "read_all_messages"
    /\ call.caller # creator
    /\ ActiveOf(messages, call.caller) # {}
    /\ result = Err("Unauthorized")

\* The number of positions of the sequence seq that hold the value x.
Count(seq, x) == Cardinality({i \in DOMAIN seq : seq[i] = x})

\* out holds every element of seq exactly as often as seq does.
IsPermutation(out, seq) ==
    /\ Len(out) = Len(seq)
    /\ \A i \in DOMAIN seq : Count(out, seq[i]) = Count(seq, seq[i])

\* C11: a successful read_all_messages returns a permutation of all the
\* messages, deleted ones included, each exactly once, with created_at
\* non-increasing from first to last, and does not change the storage.
C11_ReadAllSorted ==
    [][call'.op = "read_all_messages" /\ result'.ok =>
        /\ messages' = messages
        /\ creator' = creator
        /\ IsPermutation(result'.value, messages)
        /\ \A i, j \in DOMAIN result'.value :
            i < j => result'.value[i].created_at >= result'.value[j].created_at
      ]_vars

\* The creator listed two messages created at different times, the older one
\* deleted: the newer one comes first.
C11_Witness ==
    /\ call.op = "read_all_messages"
    /\ result.ok
    /\ Len(result.value) = 2
    /\ result.value[1].created_at > result.value[2].created_at
    /\ result.value[2].deleted_at # {}
    /\ result.value[1] = messages[2]

\* C12: read_message_from returns the text of the target's active message when
\* the target has one and fails with AnyMessageFound otherwise; the result does
\* not depend on who calls, and the call never changes the storage (so two
\* reads in a row for one target return the same).
C12_ReadOne ==
    [][call'.op = "read_message_from" =>
        /\ messages' = messages
        /\ creator' = creator
        /\ IF ActiveOf(messages, call'.target) = {}
           THEN result' = Err("AnyMessageFound")
           ELSE \E i \in ActiveOf(messages, call'.target) :
                    result' = Ok(messages[i].message)
      ]_vars

\* A caller read another identity whose only message is deleted, and got
\* AnyMessageFound.
C12_Witness ==
    /\ call.op = "read_message_from"
    /\ call.caller # call.target
    /\ TombstonesOf(messages, call.target) # {}
    /\ ActiveOf(messages, call.target) = {}
    /\ result = Err("AnyMessageFound")

\* C13: get_senders returns, ascending and without duplicates, exactly the
\* identities that own a message with deleted_at absent: an identity is in
\* the result iff read_message_from for it would succeed, and an identity
\* whose messages are all deleted is not in it.
C13_ActiveOwners ==
    call.op = "get_senders" =>
        /\ result.ok
        /\ \A i, j \in DOMAIN result.value :
            i < j => result.value[i] < result.value[j]
        /\ \A a \in Accounts :
            /\ (\E k \in DOMAIN result.value : result.value[k] = a)
                <=> ActiveOf(messages, a) # {}
            /\ (\E k \in DOMAIN result.value : result.value[k] = a)
                <=> read_message_from_ret(messages, a).ok

\* The senders were listed while one identity had only a deleted message and
\* the other an active one: one sender is returned.
C13_Witness ==
    /\ call.op = "get_senders"
    /\ \E a \in Accounts :
        TombstonesOf(messages, a) # {} /\ ActiveOf(messages, a) = {}
    /\ Len(result.value) = 1

\* C14: the messages are append-only: across any call the length never
\* decreases, it grows by exactly one on a successful create_message and by
\* zero on every other call, and the message at each existing position keeps
\* its sender and created_at.
C14_AppendOnly ==
    [][ /\ Len(messages') >= Len(messages)
        /\ Len(messages') = Len(messages) +
             (IF call'.op = "create_message" /\ result'.ok THEN 1 ELSE 0)
        /\ \A i \in DOMAIN messages :
            /\ i \in DOMAIN messages'
            /\ messages'[i].sender = messages[i].sender
            /\ messages'[i].created_at = messages[i].created_at
      ]_vars

\* A delete succeeded in a store of two messages, and both are still there.
C14_Witness ==
    /\ call.op = "delete_message"
    /\ result.ok
    /\ Len(messages) = 2
    /\ TombstonesOf(messages, call.caller) # {}

\* C15: with block timestamps that never decrease, every message has
\* updated_at >= created_at and, when deleted_at is present, deleted_at >=
\* updated_at.
C15_TimestampOrder ==
    \A i \in DOMAIN messages :
        /\ messages[i].updated_at >= messages[i].created_at
        /\ \A d \in messages[i].deleted_at : d >= messages[i].updated_at

\* A message was updated after its creation and then deleted.
C15_Witness ==
    \E i \in DOMAIN messages :
        /\ messages[i].updated_at > messages[i].created_at
        /\ messages[i].deleted_at # {}

\* C16: every message, the one written by the constructor and every deleted
\* one included, has a text of length at least 10.
C16_MinimalLength ==
    \A i \in DOMAIN messages : Len(messages[i].message) >= 10

\* An update stored a text of exactly 10 bytes, and the message was then
\* deleted.
C16_Witness ==
    \E i \in DOMAIN messages :
        /\ Len(messages[i].message) = 10
        /\ messages[i].updated_at > messages[i].created_at
        /\ messages[i].deleted_at # {}
        /\ call.op = "delete_message"

\* C17: construction by identity A at time t yields a storage whose creator is
\* A and whose messages are exactly one message, sent by A, active, with the
\* fixed text and created_at = updated_at = t; in every later state the
\* creator is still A.
C17_Construction ==
    /\ call.op = "new" =>
        /\ creator = call.caller
        /\ messages = <<[sender |-> call.caller,
                         message |-> "I created my ULTIMATE CRUD contract for Ronin Club",
                         created_at |-> now,
                         updated_at |-> now,
                         deleted_at |-> {}]>>
    /\ [][creator' = creator]_vars

\* The contract was constructed by identity 2 at time 1.
C17_Witness ==
    /\ call.op = "new"
    /\ call.caller = 2
    /\ creator = 2
    /\ now = 1

\* C18: a read_all_messages by the creator never fails with AnyMessageFound:
\* the messages always hold at least one message.
C18_ListingNeverEmpty ==
    /\ Len(messages) >= 1
    /\ (call.op = "read_all_messages" /\ call.caller = creator
            => result # Err("AnyMessageFound"))

\* The creator listed the messages while every message was deleted.
C18_Witness ==
    /\ call.op = "read_all_messages"
    /\ call.caller = creator
    /\ \A i \in DOMAIN messages : messages[i].deleted_at # {}
    /\ result.ok

\* C19: the creator's right to list does not depend on owning an active
\* message: right after construction a create_message by the creator fails
\* with MessageAlreadyCreatedBySender, a delete_message by the creator succeeds
\* on the first message, and once the first message is deleted a
\* read_all_messages by the creator still succeeds and its result holds the
\* first message, deleted.
C19_CreatorListsWithoutActive ==
    [][ /\ (call.op = "new" /\ call'.op = "create_message"
                /\ call'.caller = creator
            => result' = Err("MessageAlreadyCreatedBySender"))
        /\ (call.op = "new" /\ call'.op = "delete_message"
                /\ call'.caller = creator
            => /\ result' = Ok(Unit)
               /\ messages'[1].sender = creator
               /\ messages'[1].deleted_at # {})
        /\ (call'.op = "read_all_messages" /\ call'.caller = creator
                /\ messages[1].deleted_at # {}
            => /\ result'.ok
               /\ \E k \in DOMAIN result'.value :
                    /\ result'.value[k] = messages[1]
                    /\ result'.value[k].deleted_at # {})
      ]_vars

\* The creator, owning no active message, listed the messages, the deleted
\* first message among them.
C19_Witness ==
    /\ call.op = "read_all_messages"
    /\ call.caller = creator
    /\ ActiveOf(messages, creator) = {}
    /\ messages[1].deleted_at # {}
    /\ result.ok
    /\ \E k \in DOMAIN result.value : result.value[k] = messages[1]

\* C20: no create_message, update_message or delete_message by a caller c,
\* successful or not, the creator's included, changes a message sent by
\* another identity, so read_message_from for any other identity returns the
\* same before and after.
C20_Isolation ==
    [][call'.op \in {"create_message", "update_message", "delete_message"} =>
        /\ \A i \in DOMAIN messages :
            messages[i].sender # call'.caller =>
                i \in DOMAIN messages' /\ messages'[i] = messages[i]
        /\ \A i \in DOMAIN messages' :
            messages'[i].sender # call'.caller => i \in DOMAIN messages
        /\ \A a \in Accounts \ {call'.caller} :
            read_message_from_ret(messages', a) = read_message_from_ret(messages, a)
      ]_vars

\* An identity other than the creator updated its message while the creator's
\* first message was active.
C20_Witness ==
    /\ call.op = "update_message"
    /\ result.ok
    /\ call.caller # creator
    /\ ActiveOf(messages, creator) = {1}
    /\ ActiveOf(messages, call.caller) = {2}
====
